---- MODULE Spec2Model ----
(***************************************************************************)
(* State-machine model of Adafruit_MonoOLED (src/Adafruit_MonoOLED.cpp):   *)
(* the monochrome OLED base class with its packed framebuffer, the four    *)
(* rotation transforms, the I2C / SPI command dispatch and the bring-up    *)
(* routine _init().  Every operation of the class is one action; the       *)
(* hardware calls an operation makes (malloc, bus begin/write, pinMode,    *)
(* digitalWrite, delay, memset) are recorded, in program order, in `io`.   *)
(***************************************************************************)
EXTENDS Integers, Sequences, FiniteSets, TLC

\* ------------------------------------------------------------------ bounds
\* drawPixel calls since the framebuffer was last cleared.
MaxDraws == 1
\* Longest command table handed to oled_commandList.
MaxCmds == 3

\* ------------------------------------------------------- program constants
\* Named in Adafruit_MonoOLED.cpp; their values are those of Arduino.h (LOW,
\* HIGH, OUTPUT) and of Adafruit_MonoOLED.h (colours and opcodes).
NULL == 0
LOW == 0
HIGH == 1
OUTPUT == 1
MONOOLED_BLACK == 0
MONOOLED_WHITE == 1
MONOOLED_INVERSE == 2
MONOOLED_SETCONTRAST == 129
MONOOLED_NORMALDISPLAY == 166
MONOOLED_INVERTDISPLAY == 167

\* ------------------------------------------------------------ input sets
\* Physical sizes (w, h) given to a constructor: non-square, and a height
\* that is not a multiple of 8 and spans two pages.
Sizes == {<<2, 9>>, <<3, 2>>}
\* Bus addresses passed to _init (0x3C, 0x3D).
BusAddrs == {60, 61}
\* Reset pins: -1 (unused) or Arduino pin 4.
RstPins == {-1, 4}
\* Data/command pin of a serial surface.
DcPinSPI == 5
\* What freshly malloc'ed memory may hold (every byte the same sample).
GarbageFills == {165}
\* Colours handed to drawPixel: the three known ones and an unknown one.
Colors == {MONOOLED_BLACK, MONOOLED_WHITE, MONOOLED_INVERSE, 3}
\* Command bytes (0xAE display off, 0x81 set contrast).
CmdBytes == {174, 129}
\* Contrast levels (0x8F, 0x00).
Levels == {143, 0}
\* Transport device handles of the two serial constructors.
SoftSPI == 1
HardSPI == 2
\* The TwoWire bus object handed to the I2C constructor.
TheWire == 1

VARIABLES
  WIDTH, HEIGHT,      \* Adafruit_GFX: physical size, fixed at construction
  _width, _height,    \* Adafruit_GFX: logical size under the rotation
  rotation,           \* Adafruit_GFX: 0..3
  buffer,             \* address of the framebuffer, NULL before allocation
  mem,                \* the bytes at `buffer` (<<>> while buffer = NULL)
  _theWire,           \* I2C bus reference, NULL on a serial surface
  i2c_dev,            \* I2C transport device (its address), NULL until made
  spi_dev,            \* SPI transport device, NULL on an I2C surface
  dcPin, rstPin,      \* pins given to the constructor
  alive,              \* FALSE once the destructor has run
  crashed,            \* TRUE once undefined behaviour has faulted
  up,                 \* history: some _init call completed every step
  draws,              \* drawPixel calls since the last clear
  lastOp,             \* the most recent operation and its arguments
  io,                 \* hardware calls the most recent operation made
  access,             \* byte index the most recent pixel operation touched
  bufBefore,          \* `buffer` when the most recent operation started
  memBefore,          \* `mem` when the most recent operation started
  ret                 \* what the most recent operation returned

vars == <<WIDTH, HEIGHT, _width, _height, rotation, buffer, mem, _theWire,
          i2c_dev, spi_dev, dcPin, rstPin, alive, crashed, up, draws,
          lastOp, io, access, bufBefore, memBefore, ret>>

gfxVars == <<WIDTH, HEIGHT, _width, _height, rotation>>
busVars == <<_theWire, i2c_dev, spi_dev, dcPin, rstPin>>

\* ------------------------------------------------------------- recording
Op(name, a, b, c, tbl) == [op |-> name, a |-> a, b |-> b, c |-> c, tbl |-> tbl]
NoOp == Op("construct", 0, 0, 0, <<>>)
\* A pin-level or lifecycle hardware call.
Ev(name, pin, val) ==
  [ev |-> name, pin |-> pin, val |-> val, data |-> <<>>, prefix |-> <<>>]
\* A bus write: payload, control prefix, and whether the transport accepted it.
Wr(name, data, prefix, ok) ==
  [ev |-> name, pin |-> -1, val |-> IF ok THEN 1 ELSE 0,
   data |-> data, prefix |-> prefix]

Running == alive /\ ~crashed

\* Every operation starts by noting the framebuffer it found.
Enter == Running /\ bufBefore' = buffer /\ memBefore' = mem

\* --------------------------------------------------------- constructors
\* The state a constructor leaves.  The I2C constructor sets buffer and i2c_dev
\* to NULL and _theWire to the bus; the SPI constructors create spi_dev.  The
\* members a constructor does not name (spi_dev on an I2C surface; buffer,
\* i2c_dev and _theWire on an SPI surface) are NULL, as the data model has it:
\* the framebuffer is allocated by bring-up, and exactly one of the bus
\* reference and the SPI device is non-null.  `new` is taken to succeed.
Construct(w, h, wire, spi, dc, rst) ==
  /\ WIDTH = w /\ HEIGHT = h /\ _width = w /\ _height = h /\ rotation = 0
  /\ buffer = NULL /\ mem = <<>>
  /\ _theWire = wire /\ i2c_dev = NULL /\ spi_dev = spi
  /\ dcPin = dc /\ rstPin = rst
  /\ alive = TRUE /\ crashed = FALSE /\ up = FALSE /\ draws = 0
  /\ lastOp = NoOp /\ io = <<>> /\ access = -1 /\ ret = "void"
  /\ bufBefore = NULL /\ memBefore = <<>>

\* Adafruit_MonoOLED(w, h, twi, rst_pin, clkDuring, clkAfter)
ConstructI2C(w, h, rst) == Construct(w, h, TheWire, NULL, -1, rst)
\* Adafruit_MonoOLED(w, h, mosi, sclk, dc, rst, cs)
ConstructSoftSPI(w, h, rst) == Construct(w, h, NULL, SoftSPI, DcPinSPI, rst)
\* Adafruit_MonoOLED(w, h, spi, dc, rst, cs, bitrate)
ConstructHardSPI(w, h, rst) == Construct(w, h, NULL, HardSPI, DcPinSPI, rst)

\* ------------------------------------------------------ framebuffer layout
\* Fault: the page count rounded down, WIDTH * (HEIGHT / 8).
BufSize_Floor == WIDTH * (HEIGHT \div 8)

\* WIDTH * ((HEIGHT + 7) / 8), the size _init allocates and clearDisplay zeroes.
BufSize == WIDTH * ((HEIGHT + 7) \div 8)

\* width() / height() of Adafruit_GFX.
width == _width
height == _height
getRotation == rotation

\* int16_t values as their 16-bit two's-complement patterns and back.
ToU16(v) == v % 65536
ToS16(u) == IF u >= 32768 THEN u - 65536 ELSE u

RECURSIVE XorBits(_, _)
XorBits(a, b) ==
  IF a = 0 /\ b = 0 THEN 0
  ELSE (((a % 2) + (b % 2)) % 2) + (2 * XorBits(a \div 2, b \div 2))

\* a ^ b on int16_t operands.
Xor(a, b) == ToS16(XorBits(ToU16(a), ToU16(b)))

\* monooled_swap(a, b): a ^= b, b ^= a, a ^= b.
monooled_swap(a, b) ==
  LET a1 == Xor(a, b)
      b1 == Xor(b, a1)
      a2 == Xor(a1, b1)
  IN <<a2, b1>>

\* Fault: rotation 1 swaps the coordinates but forgets to mirror x.
Rotate_NoFlip(r, x, y) ==
  LET s == monooled_swap(x, y)
  IN CASE r = 1 -> <<s[1], s[2]>>
       [] r = 2 -> <<WIDTH - x - 1, HEIGHT - y - 1>>
       [] r = 3 -> <<s[1], HEIGHT - s[2] - 1>>
       [] OTHER -> <<x, y>>

\* The switch (getRotation()) of drawPixel: raw (x, y).
Rotate(r, x, y) ==
  LET s == monooled_swap(x, y)
  IN CASE r = 1 -> <<WIDTH - s[1] - 1, s[2]>>
       [] r = 2 -> <<WIDTH - x - 1, HEIGHT - y - 1>>
       [] r = 3 -> <<s[1], HEIGHT - s[2] - 1>>
       [] OTHER -> <<x, y>>

\* Fault: getPixel's cases 1 and 3 exchanged, out of step with drawPixel.
RotateRead_Exchanged(r, x, y) ==
  LET s == monooled_swap(x, y)
  IN CASE r = 3 -> <<WIDTH - s[1] - 1, s[2]>>
       [] r = 2 -> <<WIDTH - x - 1, HEIGHT - y - 1>>
       [] r = 1 -> <<s[1], HEIGHT - s[2] - 1>>
       [] OTHER -> <<x, y>>

\* The switch (getRotation()) of getPixel: raw (x, y).
RotateRead(r, x, y) ==
  LET s == monooled_swap(x, y)
  IN CASE r = 1 -> <<WIDTH - s[1] - 1, s[2]>>
       [] r = 2 -> <<WIDTH - x - 1, HEIGHT - y - 1>>
       [] r = 3 -> <<s[1], HEIGHT - s[2] - 1>>
       [] OTHER -> <<x, y>>

\* Fault: an off-by-one upper bound on x.
InBounds_Inclusive(x, y) == (x >= 0) /\ (x <= width) /\ (y >= 0) /\ (y < height)

\* The bounds check drawPixel starts with.
InBounds(x, y) == (x >= 0) /\ (x < width) /\ (y >= 0) /\ (y < height)

\* The bounds check getPixel starts with.
InBoundsRead(x, y) == (x >= 0) /\ (x < width) /\ (y >= 0) /\ (y < height)

\* x + (y / 8) * WIDTH
ByteIndex(p) == p[1] + (p[2] \div 8) * WIDTH
\* 1 << (y & 7)
BitMask(p) == 2 ^ (p[2] % 8)

HasBit(b, m) == (b \div m) % 2 = 1

\* The switch (color) of drawPixel applied to one byte.
ApplyColor(b, m, color) ==
  CASE color = MONOOLED_WHITE -> IF HasBit(b, m) THEN b ELSE b + m
    [] color = MONOOLED_BLACK -> IF HasBit(b, m) THEN b - m ELSE b
    [] color = MONOOLED_INVERSE -> IF HasBit(b, m) THEN b - m ELSE b + m
    [] OTHER -> b

KnownColor(color) ==
  color \in {MONOOLED_WHITE, MONOOLED_BLACK, MONOOLED_INVERSE}

\* Does buffer[i] name a byte of the allocation?
ValidAccess(i) == buffer # NULL /\ i >= 0 /\ i < Len(mem)

\* Every value getPixel(x, y) can return: the stored bit, false out of bounds,
\* anything when the read goes through NULL or past the allocation.
getPixelReturns(x, y) ==
  LET p == RotateRead(getRotation, x, y)
      i == ByteIndex(p)
  IN IF InBoundsRead(x, y)
     THEN IF ValidAccess(i)
          THEN {IF HasBit(mem[i + 1], BitMask(p)) THEN "true" ELSE "false"}
          ELSE {"true", "false"}
     ELSE {"false"}

\* Coordinates offered to the pixel operations under the current rotation.
\* one column / row outside the logical rectangle on every side.
XCoords == -1 .. _width
YCoords == -1 .. _height

\* ------------------------------------------------------------ Adafruit_GFX
setRotation(r) ==
  /\ Enter
  /\ rotation' = (r % 4)
  /\ _width' = IF (r % 2) = 0 THEN WIDTH ELSE HEIGHT
  /\ _height' = IF (r % 2) = 0 THEN HEIGHT ELSE WIDTH
  /\ lastOp' = Op("setRotation", r, 0, 0, <<>>)
  /\ io' = <<>> /\ access' = -1 /\ ret' = "void"
  /\ UNCHANGED <<WIDTH, HEIGHT, buffer, mem, busVars, alive, crashed, up, draws>>

\* --------------------------------------------------------- pixel operations
drawPixel(x, y, color) ==
  /\ Enter
  /\ draws < MaxDraws
  /\ draws' = draws + 1
  /\ lastOp' = Op("drawPixel", x, y, color, <<>>)
  /\ io' = <<>> /\ ret' = "void"
  /\ LET p == Rotate(getRotation, x, y)
         i == ByteIndex(p)
     IN IF InBounds(x, y) /\ KnownColor(color)
        THEN /\ access' = i
             /\ IF ValidAccess(i)
                THEN /\ mem' = [mem EXCEPT ![i + 1] = ApplyColor(@, BitMask(p), color)]
                     /\ crashed' = FALSE
                ELSE \* write through NULL or past the allocation: undefined
                     /\ mem' = mem
                     /\ crashed' \in BOOLEAN
        ELSE /\ access' = -1
             /\ UNCHANGED <<mem, crashed>>
  /\ UNCHANGED <<gfxVars, buffer, busVars, alive, up>>

\* The coordinates of a read are not kept in lastOp; `access` keeps the byte
\* index it computed.
getPixel(x, y) ==
  /\ Enter
  /\ lastOp' = Op("getPixel", 0, 0, 0, <<>>)
  /\ io' = <<>>
  /\ ret' \in getPixelReturns(x, y)
  /\ LET i == ByteIndex(RotateRead(getRotation, x, y))
     IN IF InBoundsRead(x, y)
        THEN /\ access' = i
             /\ crashed' \in (IF ValidAccess(i) THEN {FALSE} ELSE BOOLEAN)
        ELSE /\ access' = -1
             /\ crashed' = crashed
  /\ UNCHANGED <<gfxVars, buffer, mem, busVars, alive, up, draws>>

clearDisplay ==
  /\ Enter
  /\ lastOp' = Op("clearDisplay", 0, 0, 0, <<>>)
  /\ io' = <<Ev("memset", -1, BufSize)>> /\ access' = -1 /\ ret' = "void"
  /\ IF buffer # NULL
     THEN /\ mem' = [i \in 1..BufSize |-> 0]
          /\ draws' = 0
          /\ crashed' = FALSE
     ELSE \* memset through NULL: undefined
          /\ mem' = mem /\ draws' = draws
          /\ crashed' \in BOOLEAN
  /\ UNCHANGED <<gfxVars, buffer, busVars, alive, up>>

\* ----------------------------------------------------------------- bring-up
\* Fault: _init allocates on every call.
NeedAlloc_Always == TRUE

\* (!buffer): _init allocates only while no framebuffer exists.
NeedAlloc == buffer = NULL

\* malloc never returns the address of a block that is still allocated.
FreshBlock == IF buffer = 1 THEN 2 ELSE 1

\* if (_theWire): the branch _init takes to open the transport.
UsesI2C == _theWire # NULL

\* What _init returns when the transport fails to open: `return false` on the
\* I2C branch, a bare `return;` (an indeterminate value) on the SPI branch.
OpenFailReturn(junk) == IF UsesI2C THEN "false" ELSE junk

\* The hardware calls that open the transport, in order.
OpenTransport(addr, beginOk) ==
  IF UsesI2C
  THEN <<Ev("i2c_new", -1, addr), Ev("i2c_begin", -1, IF beginOk THEN 1 ELSE 0)>>
  ELSE IF spi_dev = NULL THEN <<>>
  ELSE IF beginOk
       THEN <<Ev("spi_begin", -1, 1), Ev("pinMode", dcPin, OUTPUT)>>
       ELSE <<Ev("spi_begin", -1, 0)>>

Opened(beginOk) == IF UsesI2C THEN beginOk ELSE (spi_dev # NULL /\ beginOk)

\* if (reset && (rstPin >= 0))
ResetWanted(reset) == reset /\ (rstPin >= 0)

\* Fault: the pulse starts by pulling reset low and never idles high first.
ResetPulse_LowFirst ==
  <<Ev("pinMode", rstPin, OUTPUT),
    Ev("digitalWrite", rstPin, LOW), Ev("delay", -1, 10),
    Ev("digitalWrite", rstPin, HIGH), Ev("delay", -1, 10)>>

\* The reset pulse: HIGH, 1 ms, LOW, 10 ms, HIGH, 10 ms.
ResetPulse ==
  <<Ev("pinMode", rstPin, OUTPUT),
    Ev("digitalWrite", rstPin, HIGH), Ev("delay", -1, 1),
    Ev("digitalWrite", rstPin, LOW), Ev("delay", -1, 10),
    Ev("digitalWrite", rstPin, HIGH), Ev("delay", -1, 10)>>

ClearEv == Ev("memset", -1, BufSize)

_init(addr, reset, mallocOk, fill, beginOk, junk) ==
  /\ Enter
  /\ lastOp' = Op("_init", addr, IF reset THEN 1 ELSE 0, 0, <<>>)
  /\ access' = -1
  /\ LET alloc == NeedAlloc
         got == IF mallocOk THEN FreshBlock ELSE NULL
         buf1 == IF alloc THEN got ELSE buffer
         mem1 == IF alloc /\ got # NULL THEN [i \in 1..BufSize |-> fill] ELSE mem
         io1 == IF alloc THEN <<Ev("malloc", got, BufSize)>> ELSE <<>>
         io2 == io1 \o OpenTransport(addr, beginOk)
     IN IF buf1 = NULL
        THEN \* allocation failed
             /\ ret' = "false" /\ io' = io1
             /\ UNCHANGED <<buffer, mem, i2c_dev, up, draws>>
        ELSE /\ buffer' = buf1
             /\ i2c_dev' = IF UsesI2C THEN addr ELSE i2c_dev
             /\ IF ~Opened(beginOk)
                THEN \* device not found / transport unavailable
                     /\ ret' = OpenFailReturn(junk) /\ io' = io2
                     /\ mem' = mem1
                     /\ UNCHANGED <<up, draws>>
                ELSE /\ mem' = [i \in 1..BufSize |-> 0]
                     /\ io' = io2 \o <<ClearEv>>
                               \o (IF ResetWanted(reset) THEN ResetPulse ELSE <<>>)
                     /\ ret' = "true"
                     /\ up' = TRUE /\ draws' = 0
  /\ UNCHANGED <<gfxVars, _theWire, spi_dev, dcPin, rstPin, alive, crashed>>

\* ~Adafruit_MonoOLED()
Destroy ==
  /\ Enter
  /\ lastOp' = Op("~Adafruit_MonoOLED", 0, 0, 0, <<>>)
  /\ io' = (IF buffer # NULL THEN <<Ev("free", buffer, 0)>> ELSE <<>>)
           \o (IF spi_dev # NULL THEN <<Ev("delete_spi", -1, spi_dev)>> ELSE <<>>)
           \o (IF i2c_dev # NULL THEN <<Ev("delete_i2c", -1, i2c_dev)>> ELSE <<>>)
  /\ buffer' = NULL /\ mem' = <<>>
  /\ alive' = FALSE
  /\ access' = -1 /\ ret' = "void"
  /\ UNCHANGED <<gfxVars, busVars, crashed, up, draws>>

\* --------------------------------------------------------- command dispatch
\* if (i2c_dev): the test both dispatch routines use to pick the framing.
I2CPath == i2c_dev # NULL

\* spi_dev->write(&b, 1); through a NULL spi_dev the call is undefined.
SpiWriteEv(b) ==
  IF spi_dev # NULL THEN Wr("spi_write", <<b>>, <<>>, TRUE)
  ELSE Ev("null_call", -1, b)

\* Dispatch faults when it calls through a NULL spi_dev.
NullCall(n) == ~I2CPath /\ spi_dev = NULL /\ n > 0

\* pgm_read_byte(c++) on the k-th pass of the loop.
pgm_read_byte(tbl, k) == tbl[k]

\* while (n--) { b = pgm_read_byte(c++); spi_dev->write(&b, 1); }, n a uint8_t.
RECURSIVE SpiStream(_, _, _)
SpiStream(tbl, k, n) ==
  IF n = 0 THEN <<>>
  ELSE <<SpiWriteEv(pgm_read_byte(tbl, k))>> \o SpiStream(tbl, k + 1, (n - 1) % 256)

\* Body of oled_command(c).
CommandIO(c, wrOk) ==
  IF I2CPath
  THEN <<Wr("i2c_write", <<0, c>>, <<>>, wrOk)>>
  ELSE <<Ev("digitalWrite", dcPin, LOW), SpiWriteEv(c)>>

\* Fault: the I2C branch sends each byte as a frame of its own.
ListIO_PerByte(tbl, n, wrOk) ==
  IF I2CPath
  THEN [k \in 1..n |-> Wr("i2c_write", <<0, tbl[k]>>, <<>>, wrOk)]
  ELSE <<Ev("digitalWrite", dcPin, LOW)>> \o SpiStream(tbl, 1, n)

\* Body of oled_commandList(c, n).
ListIO(tbl, n, wrOk) ==
  IF I2CPath
  THEN <<Wr("i2c_write", SubSeq(tbl, 1, n), <<0>>, wrOk)>>
  ELSE <<Ev("digitalWrite", dcPin, LOW)>> \o SpiStream(tbl, 1, n)

\* Fault: the result of the I2C write is ignored.
ListRet_Ignored(wrOk) == "true"

\* What oled_commandList returns.
ListRet(wrOk) == IF I2CPath /\ ~wrOk THEN "false" ELSE "true"

Dispatch(op, newIo, newRet, faulty, fault) ==
  /\ Enter
  /\ lastOp' = op
  /\ io' = newIo
  /\ ret' = newRet
  /\ crashed' = (faulty /\ fault)
  /\ access' = -1
  /\ UNCHANGED <<gfxVars, buffer, mem, busVars, alive, up, draws>>

oled_command(c, wrOk, fault) ==
  Dispatch(Op("oled_command", c, 0, 0, <<>>), CommandIO(c, wrOk), "void",
           NullCall(1), fault)

oled_commandList(tbl, n, wrOk, fault) ==
  Dispatch(Op("oled_commandList", n, 0, 0, tbl), ListIO(tbl, n, wrOk),
           ListRet(wrOk), NullCall(n), fault)

\* oled_command(i ? MONOOLED_INVERTDISPLAY : MONOOLED_NORMALDISPLAY)
invertDisplay(i, wrOk, fault) ==
  Dispatch(Op("invertDisplay", IF i THEN 1 ELSE 0, 0, 0, <<>>),
           CommandIO(IF i THEN MONOOLED_INVERTDISPLAY ELSE MONOOLED_NORMALDISPLAY,
                     wrOk),
           "void", NullCall(1), fault)

\* cmd[] = {MONOOLED_SETCONTRAST, level}; oled_commandList(cmd, 2); result dropped.
setContrast(level, wrOk, fault) ==
  Dispatch(Op("setContrast", level, 0, 0, <<>>),
           ListIO(<<MONOOLED_SETCONTRAST, level>>, 2, wrOk), "void",
           NullCall(2), fault)

\* ------------------------------------------------------------ specifications
Tables == UNION {[1..k -> CmdBytes] : k \in 0..MaxCmds}
Junk == {"true", "false"}

Init ==
  \E sz \in Sizes, rst \in RstPins :
    \/ ConstructI2C(sz[1], sz[2], rst)
    \/ ConstructSoftSPI(sz[1], sz[2], rst)
    \/ ConstructHardSPI(sz[1], sz[2], rst)

BringUp ==
  \E addr \in BusAddrs, reset \in BOOLEAN, mallocOk \in BOOLEAN,
     fill \in GarbageFills, beginOk \in BOOLEAN, junk \in Junk :
    _init(addr, reset, mallocOk, fill, beginOk, junk)

\* Bring-up, command dispatch and teardown.
Next ==
  \/ BringUp
  \/ \E c \in CmdBytes, wrOk \in BOOLEAN, fault \in BOOLEAN :
       oled_command(c, wrOk, fault)
  \/ \E tbl \in Tables, wrOk \in BOOLEAN, fault \in BOOLEAN :
       oled_commandList(tbl, Len(tbl), wrOk, fault)
  \/ \E i \in BOOLEAN, wrOk \in BOOLEAN, fault \in BOOLEAN :
       invertDisplay(i, wrOk, fault)
  \/ \E level \in Levels, wrOk \in BOOLEAN, fault \in BOOLEAN :
       setContrast(level, wrOk, fault)
  \/ clearDisplay
  \/ Destroy

Spec == Init /\ [][Next]_vars

\* The framebuffer: an I2C surface, bring-up, rotation changes and the pixel
\* operations.
InitPixel ==
  \E sz \in Sizes : ConstructI2C(sz[1], sz[2], -1)

NextPixel ==
  \/ \E mallocOk \in BOOLEAN, fill \in GarbageFills, beginOk \in BOOLEAN :
       _init(60, TRUE, mallocOk, fill, beginOk, "false")
  \/ \E r \in 0..3 : setRotation(r)
  \/ \E x \in XCoords, y \in YCoords, color \in Colors : drawPixel(x, y, color)
  \/ \E x \in XCoords, y \in YCoords : getPixel(x, y)
  \/ clearDisplay

SpecPixel == InitPixel /\ [][NextPixel]_vars

\* ------------------------------------------------------- framebuffer claims
\* The logical (post-rotation) size, and membership in it.
LogicalWidth == IF (rotation % 2) = 1 THEN HEIGHT ELSE WIDTH
LogicalHeight == IF (rotation % 2) = 1 THEN WIDTH ELSE HEIGHT
Inside(x, y) == x >= 0 /\ x < LogicalWidth /\ y >= 0 /\ y < LogicalHeight

\* The last operation was drawPixel(lastOp.a, lastOp.b, lastOp.c), it returned,
\* and a framebuffer was allocated when it ran.
Drew == lastOp.op = "drawPixel" /\ buffer # NULL /\ ~crashed

\* C1: with the framebuffer allocated (as it is after a successful bring-up),
\* under every rotation and whatever the buffer held before, drawPixel(x, y,
\* WHITE) at an in-bounds (x, y) leaves the buffer such that getPixel(x, y)
\* can only return true, and drawPixel(x, y, BLACK) such that it can only
\* return false.
C1_SetThenGet ==
  (Drew /\ Inside(lastOp.a, lastOp.b)) =>
    /\ (lastOp.c = MONOOLED_WHITE => getPixelReturns(lastOp.a, lastOp.b) = {"true"})
    /\ (lastOp.c = MONOOLED_BLACK => getPixelReturns(lastOp.a, lastOp.b) = {"false"})

\* A successful bring-up happened, the display is rotated by 90 degrees, and an
\* in-bounds pixel of the second page was set and reads back as set.
C1_Witness ==
  /\ Drew /\ up /\ rotation = 1 /\ Inside(lastOp.a, lastOp.b)
  /\ lastOp.c = MONOOLED_WHITE /\ access >= WIDTH
  /\ getPixelReturns(lastOp.a, lastOp.b) = {"true"}

\* C2: under every rotation, for every coordinate outside the logical
\* rectangle, getPixel can only return false, and a drawPixel there, in any
\* colour, leaves the buffer pointer and every byte of the buffer as they were.
C2_OutOfBounds ==
  /\ \A x \in XCoords, y \in YCoords :
       ~Inside(x, y) => getPixelReturns(x, y) = {"false"}
  /\ (lastOp.op = "drawPixel" /\ ~Inside(lastOp.a, lastOp.b)) =>
       (mem = memBefore /\ buffer = bufBefore /\ access = -1)

\* An out-of-bounds drawPixel(width(), 0, WHITE) ran on a rotated display whose
\* buffer holds set bits, and changed nothing.
C2_Witness ==
  /\ lastOp.op = "drawPixel" /\ buffer # NULL /\ rotation = 3
  /\ lastOp.a = LogicalWidth /\ lastOp.b = 0 /\ lastOp.c = MONOOLED_WHITE
  /\ mem = memBefore /\ (\E i \in 1..Len(mem) : mem[i] # 0)

\* The raw coordinate of (x, y) under rotation r, as the claim gives it.
ExpectedRaw(r, x, y) ==
  CASE r = 0 -> <<x, y>>
    [] r = 1 -> <<WIDTH - 1 - y, x>>
    [] r = 2 -> <<WIDTH - 1 - x, HEIGHT - 1 - y>>
    [] r = 3 -> <<y, HEIGHT - 1 - x>>

SameBit(i, k) == HasBit(mem[i + 1], 2 ^ k) = HasBit(memBefore[i + 1], 2 ^ k)

\* C3: an in-bounds drawPixel(x, y, color) leaves every storage bit as it was,
\* except possibly bit (ry & 7) of byte rx + (ry / 8) * W, where (rx, ry) is
\* the claim's raw coordinate for the rotation; and (0, 0) under rotation 2
\* addresses the byte and bit of (W-1, H-1) under rotation 0.
C3_SingleBit ==
  /\ (Drew /\ Inside(lastOp.a, lastOp.b)) =>
       LET e == ExpectedRaw(rotation, lastOp.a, lastOp.b)
       IN /\ Len(mem) = Len(memBefore)
          /\ \A i \in 0..(Len(mem) - 1), k \in 0..7 :
               (i # e[1] + (e[2] \div 8) * WIDTH \/ k # e[2] % 8) => SameBit(i, k)
  /\ ByteIndex(Rotate(2, 0, 0)) = ByteIndex(Rotate(0, WIDTH - 1, HEIGHT - 1))
  /\ BitMask(Rotate(2, 0, 0)) = BitMask(Rotate(0, WIDTH - 1, HEIGHT - 1))

\* Under rotation 1 a drawPixel changed a bit of the second page.
C3_Witness ==
  /\ Drew /\ rotation = 1 /\ Inside(lastOp.a, lastOp.b)
  /\ mem # memBefore /\ access >= WIDTH
  /\ \E i \in 0..(Len(mem) - 1), k \in 0..7 : ~SameBit(i, k)

\* ceil(h / 8)
CeilDiv8(h) == IF (h % 8) = 0 THEN h \div 8 ELSE (h \div 8) + 1

\* C10: with the framebuffer allocated, the byte index a pixel operation
\* computes after its bounds check and rotation transform lies in
\* [0, W * ceil(H / 8)), which is the length of the allocation.
C10_IndexInBuffer ==
  (buffer # NULL /\ lastOp.op \in {"drawPixel", "getPixel"} /\ access # -1) =>
    /\ Len(mem) = WIDTH * CeilDiv8(HEIGHT)
    /\ access >= 0 /\ access < WIDTH * CeilDiv8(HEIGHT)

\* After a successful bring-up of a display whose height is not a multiple of
\* 8, under rotation 3, a pixel operation reached the last byte of the buffer.
C10_Witness ==
  /\ up /\ buffer # NULL /\ (HEIGHT % 8) # 0 /\ WIDTH # HEIGHT /\ rotation = 3
  /\ lastOp.op \in {"drawPixel", "getPixel"}
  /\ access = Len(mem) - 1

\* ---------------------------------------------- bring-up and dispatch claims
IoHas(name) == \E k \in 1..Len(io) : io[k].ev = name
IoHasVal(name, v) == \E k \in 1..Len(io) : io[k].ev = name /\ io[k].val = v

WasInit == lastOp.op = "_init"
\* What the last _init call met, read off the hardware calls it made.
AllocFailed == \E k \in 1..Len(io) : io[k].ev = "malloc" /\ io[k].pin = NULL
OpenFailed == IoHasVal("i2c_begin", 0) \/ IoHasVal("spi_begin", 0)
OpenSucceeded == IoHasVal("i2c_begin", 1) \/ IoHasVal("spi_begin", 1)
TransportTouched ==
  IoHas("i2c_new") \/ IoHas("i2c_begin") \/ IoHas("spi_begin")

\* C4: a bring-up whose allocation fails returns false without constructing or
\* opening the transport; one whose transport fails to open returns false
\* without clearing the framebuffer or pulsing reset; and bring-up returns true
\* only when allocation and transport open both succeeded.
C4_FailureReported ==
  WasInit =>
    /\ (AllocFailed => (ret = "false" /\ ~TransportTouched))
    /\ (OpenFailed =>
          (ret = "false" /\ ~IoHas("memset") /\ ~IoHas("digitalWrite")))
    /\ (ret = "true" => (buffer # NULL /\ OpenSucceeded))

\* C5: a bring-up call that finds the framebuffer allocated keeps the same
\* buffer and calls malloc no more, and still opens the transport: on an I2C
\* surface it constructs a device for the given address and begins it, on a
\* serial surface it begins the SPI device.
C5_NoReallocButReopen ==
  (WasInit /\ bufBefore # NULL) =>
    /\ buffer = bufBefore
    /\ ~IoHas("malloc")
    /\ Len(io) >= 1
    /\ IF _theWire # NULL
       THEN /\ Len(io) >= 2
            /\ io[1] = Ev("i2c_new", -1, lastOp.a)
            /\ io[2].ev = "i2c_begin"
            /\ i2c_dev = lastOp.a
       ELSE io[1].ev = "spi_begin"

\* A later bring-up call on an I2C surface, for the other bus address, found
\* the buffer allocated, re-opened the transport and was refused.
C5_Witness ==
  /\ WasInit /\ bufBefore # NULL /\ buffer = bufBefore /\ up
  /\ lastOp.a = 61 /\ IoHasVal("i2c_begin", 0) /\ ret = "false"

IsPulseEv(e) == e.ev \in {"digitalWrite", "delay"}
\* The writes and waits of the last operation, in order, as <<kind, pin, value>>.
Pulse(k) == LET e == SelectSeq(io, IsPulseEv)[k] IN <<e.ev, e.pin, e.val>>
PulseLen == Len(SelectSeq(io, IsPulseEv))
\* Position in io of the first call of the given kind (0 if none).
FirstPos(names) ==
  IF \E k \in 1..Len(io) : io[k].ev \in names
  THEN CHOOSE k \in 1..Len(io) :
         io[k].ev \in names /\ \A j \in 1..(k - 1) : io[j].ev \notin names
  ELSE 0

\* C6: a bring-up that allocated and opened, asked to reset with a reset pin
\* >= 0, writes the reset pin HIGH, waits 1 ms, writes LOW, waits 10 ms, writes
\* HIGH, waits 10 ms, exactly so and in that order, after the transport open
\* and the framebuffer clear, and returns true; a bring-up not asked to reset,
\* or with reset pin -1, makes no digitalWrite and no delay.
C6_ResetPulse ==
  WasInit =>
    IF lastOp.b = 1 /\ rstPin >= 0
    THEN (buffer # NULL /\ OpenSucceeded) =>
           /\ PulseLen = 6
           /\ Pulse(1) = <<"digitalWrite", rstPin, HIGH>>
           /\ Pulse(2) = <<"delay", -1, 1>>
           /\ Pulse(3) = <<"digitalWrite", rstPin, LOW>>
           /\ Pulse(4) = <<"delay", -1, 10>>
           /\ Pulse(5) = <<"digitalWrite", rstPin, HIGH>>
           /\ Pulse(6) = <<"delay", -1, 10>>
           /\ FirstPos({"i2c_begin", "spi_begin"}) > 0
           /\ FirstPos({"i2c_begin", "spi_begin"}) < FirstPos({"memset"})
           /\ FirstPos({"memset"}) < FirstPos({"digitalWrite", "delay"})
           /\ ret = "true"
    ELSE PulseLen = 0

\* An I2C display with reset pin 4 was brought up at 0x3C with reset requested.
C6_Witness ==
  /\ WasInit /\ _theWire # NULL /\ rstPin = 4 /\ lastOp.a = 60 /\ lastOp.b = 1
  /\ ret = "true" /\ PulseLen = 6 /\ IoHas("memset")

WasList == lastOp.op = "oled_commandList"

\* C7: oled_commandList of n bytes on the I2C path makes exactly one transport
\* write, carrying the n bytes of the table behind the single control byte
\* 0x00; on the SPI path it writes the data/command pin low once and then
\* makes n one-byte writes, the k-th carrying the k-th byte of the table.
C7_ListFraming ==
  WasList =>
    IF i2c_dev # NULL
    THEN /\ Len(io) = 1
         /\ io[1].ev = "i2c_write"
         /\ io[1].data = lastOp.tbl /\ Len(io[1].data) = lastOp.a
         /\ io[1].prefix = <<0>>
    ELSE (spi_dev # NULL) =>
         /\ Len(io) = lastOp.a + 1
         /\ io[1] = Ev("digitalWrite", dcPin, LOW)
         /\ \A k \in 1..lastOp.a :
              /\ io[k + 1].ev = "spi_write"
              /\ io[k + 1].data = <<lastOp.tbl[k]>>

\* A three-byte table whose bytes differ went out over I2C in one write.
C7_Witness ==
  /\ WasList /\ i2c_dev # NULL /\ lastOp.a = 3
  /\ lastOp.tbl[1] # lastOp.tbl[2]
  /\ Len(io) = 1 /\ io[1].prefix = <<0>>

\* The last operation issued an I2C write that the transport refused.
I2CWriteFailed == Len(io) = 1 /\ io[1].ev = "i2c_write" /\ io[1].val = 0
OnSerialPath == Len(io) >= 1 /\ io[1].ev = "digitalWrite"

\* C8 as stated: a failed I2C write of oled_command or of oled_commandList
\* makes the operation return false; on the SPI path neither returns false.
C8_FailurePropagates ==
  (lastOp.op \in {"oled_command", "oled_commandList"}) =>
    /\ (I2CWriteFailed => ret = "false")
    /\ (OnSerialPath => ret # "false")

\* C8 amended: oled_commandList returns false exactly when its I2C write
\* fails, and never on the SPI path; oled_command returns no value, so a
\* failed I2C write of it is not reported.
C8_ListFailurePropagates ==
  /\ WasList =>
       /\ (I2CWriteFailed <=> ret = "false")
       /\ (OnSerialPath => ret = "true")
  /\ (lastOp.op = "oled_command") => ret = "void"

\* oled_commandList's I2C write was refused and it returned false.
C8_Witness ==
  WasList /\ I2CWriteFailed /\ Len(lastOp.tbl) = 2 /\ ret = "false"

\* A write framed for the I2C bus: led by the control byte 0x00.
ControlPrefixed(e) ==
  /\ e.ev = "i2c_write"
  /\ \/ e.prefix = <<0>>
     \/ (e.prefix = <<>> /\ Len(e.data) >= 1 /\ e.data[1] = 0)

WasDispatch ==
  lastOp.op \in {"oled_command", "oled_commandList", "invertDisplay", "setContrast"}

\* C9: every dispatch on a surface built by the I2C constructor is one
\* control-prefixed I2C write with no data/command pin write and no SPI write,
\* and every dispatch on a surface built by an SPI constructor writes the
\* data/command pin and makes only SPI writes; in every reachable state.
C9_BindingDecidesPath ==
  WasDispatch =>
    IF _theWire # NULL
    THEN /\ Len(io) = 1 /\ ControlPrefixed(io[1])
    ELSE /\ Len(io) >= 1
         /\ io[1] = Ev("digitalWrite", dcPin, LOW)
         /\ \A k \in 2..Len(io) : io[k].ev = "spi_write"

====
